---- MODULE Spec2Model ----
(***************************************************************************)
(* Geographic coordinates (src/src/geographic.rs) and the equirectangular  *)
(* projection (src/src/projection/equirectangular.rs).                     *)
(*                                                                         *)
(* The program is a library of pure functions over Float. Several of its   *)
(* documented properties are decided by rounding (a half-open range, an    *)
(* argument of acos that must stay within [-1, 1], a product divided back  *)
(* by its factor), so Float is modelled as a binary floating-point format  *)
(* with round-to-nearest, ties-to-even, as IEEE 754 defines it, only with  *)
(* a short significand: MantBits bits instead of the 53 of f64. A value of *)
(* the format is an integer n standing for n / Scale. The exponent range   *)
(* is not modelled upwards (no overflow to infinity); downwards the values *)
(* below 2^(MantBits-1) / Scale are spaced 1 / Scale apart, like IEEE      *)
(* subnormals. Inputs are drawn from the finite values of the format.      *)
(***************************************************************************)
EXTENDS Integers, Sequences, FiniteSets, TLC

VARIABLES call, args, ret

vars == <<call, args, ret>>

----------------------------------------------------------------------------
(* Float: the format and its correctly rounded arithmetic.                 *)

\* Bits of the significand.
MantBits == 6

\* Bits of the fraction: the integer n stands for n / 2^FracBits.
FracBits == 12

Scale == 2^FracBits

\* The value acos returns outside [-1, 1]. It is never an operand here.
NaN == 0 - 2^30

Abs(a) == IF a < 0 THEN 0 - a ELSE a

Max(a, b) == IF a >= b THEN a ELSE b

RECURSIVE BitLen(_)
\* The number of binary digits of a >= 0.
BitLen(a) == IF a = 0 THEN 0 ELSE 1 + BitLen(a \div 2)

\* The distance between neighbouring values of the format at magnitude a >= 0.
Quantum(a) == 2^Max(0, BitLen(a) - MantBits)

\* The integer of the significand of a >= 0 (a = Mant(a) * Quantum(a)).
Mant(a) == a \div Quantum(a)

\* a is a value of the format.
Representable(a) == Abs(a) % Quantum(Abs(a)) = 0

\* num / den >= 0 rounded to the nearest value of the format, ties to even.
RoundRatio(num, den) ==
  LET q == Quantum(num \div den)
      d == den * q
      m == num \div d
      r == num - m * d
      up == 2 * r > d \/ (2 * r = d /\ m % 2 = 1)
  IN  (IF up THEN m + 1 ELSE m) * q

\* num / den (den > 0) rounded to the format; rounding is symmetric in the sign.
Round(num, den) ==
  IF num < 0 THEN 0 - RoundRatio(0 - num, den) ELSE RoundRatio(num, den)

\* a + b
FAdd(a, b) == Round(a + b, 1)

\* a - b
FSub(a, b) == Round(a - b, 1)

\* a * b: the significands are multiplied exactly, the product rounded once.
FMul(a, b) ==
  LET s == IF (a < 0) = (b < 0) THEN 1 ELSE 0 - 1
      e == Quantum(Abs(a)) * Quantum(Abs(b))
      p == Mant(Abs(a)) * Mant(Abs(b))
  IN  IF e >= Scale THEN s * RoundRatio(p * (e \div Scale), 1)
                    ELSE s * RoundRatio(p, Scale \div e)

\* a / b for b # 0: the exact quotient rounded once.
FDiv(a, b) ==
  LET s == IF (a < 0) = (b < 0) THEN 1 ELSE 0 - 1
      n == Quantum(Abs(a)) * Scale
      d == Quantum(Abs(b))
  IN  IF n >= d THEN s * RoundRatio(Mant(Abs(a)) * (n \div d), Mant(Abs(b)))
                ELSE s * RoundRatio(Mant(Abs(a)), Mant(Abs(b)) * (d \div n))

\* a % b of Rust: the remainder of the truncated division, exact, with the
\* sign of a.
FRem(a, b) == IF a < 0 THEN 0 - ((0 - a) % Abs(b)) ELSE a % Abs(b)

\* f64::rem_euclid: let r = self % rhs; if r < 0.0 { r + rhs.abs() } else { r }
RemEuclid(a, b) ==
  LET r == FRem(a, b) IN IF r < 0 THEN FAdd(r, Abs(b)) ELSE r

\* The position of the value a >= 0 among the non-negative values of the format.
Rank(a) ==
  IF a < 2^MantBits THEN a
  ELSE LET k == BitLen(a) - MantBits IN k * 2^(MantBits - 1) + a \div 2^k

\* sin(a / Scale) * Scale rounded to the format, for the representable a in 0 .. 32 * Scale, by rank.
SinTab ==
  << 0, 1, 2, 3, 4, 5, 6, 7, 8, 9, 10, 11,
     12, 13, 14, 15, 16, 17, 18, 19, 20, 21, 22, 23,
     24, 25, 26, 27, 28, 29, 30, 31, 32, 33, 34, 35,
     36, 37, 38, 39, 40, 41, 42, 43, 44, 45, 46, 47,
     48, 49, 50, 51, 52, 53, 54, 55, 56, 57, 58, 59,
     60, 61, 62, 63, 64, 66, 68, 70, 72, 74, 76, 78,
     80, 82, 84, 86, 88, 90, 92, 94, 96, 98, 100, 102,
     104, 106, 108, 110, 112, 114, 116, 118, 120, 122, 124, 126,
     128, 132, 136, 140, 144, 148, 152, 156, 160, 164, 168, 172,
     176, 180, 184, 188, 192, 196, 200, 204, 208, 212, 216, 220,
     224, 228, 232, 236, 240, 244, 248, 252, 256, 264, 272, 280,
     288, 296, 304, 312, 320, 328, 336, 344, 352, 360, 368, 376,
     384, 392, 400, 408, 416, 424, 432, 440, 448, 456, 464, 472,
     480, 488, 496, 504, 512, 528, 544, 560, 576, 592, 608, 624,
     640, 656, 672, 688, 704, 720, 736, 752, 768, 784, 800, 816,
     832, 848, 864, 880, 896, 912, 928, 928, 944, 960, 976, 992,
     1008, 1056, 1088, 1120, 1152, 1152, 1184, 1216, 1248, 1280, 1312, 1344,
     1376, 1408, 1440, 1472, 1504, 1536, 1568, 1600, 1632, 1632, 1664, 1696,
     1728, 1760, 1792, 1824, 1856, 1888, 1920, 1920, 1952, 2016, 2048, 2112,
     2176, 2240, 2304, 2368, 2368, 2432, 2496, 2560, 2624, 2624, 2688, 2752,
     2816, 2816, 2880, 2944, 2944, 3008, 3072, 3072, 3136, 3200, 3200, 3264,
     3328, 3328, 3392, 3392, 3456, 3520, 3584, 3648, 3712, 3776, 3776, 3840,
     3904, 3904, 3968, 3968, 4032, 4032, 4032, 4096, 4096, 4096, 4096, 4096,
     4096, 4096, 4096, 4032, 4032, 4032, 3968, 3968, 3904, 3840, 3840, 3776,
     3712, 3584, 3456, 3328, 3200, 3008, 2816, 2624, 2432, 2240, 2016, 1792,
     1568, 1312, 1088, 832, 576, 320, 68, -188, -440, -704, -944, -1184,
     -1440, -1664, -1888, -2112, -2368, -2560, -2752, -2944, -3072, -3392, -3648, -3840,
     -4032, -4096, -4096, -4032, -3904, -3776, -3520, -3200, -2880, -2496, -2112, -1632,
     -1152, -640, -136, 376, 880, 1376, 1856, 2304, 2688, 3072, 3392, 3648,
     3840, 3968, 4096, 4096, 4032, 3776, 3264, 2560, 1696, 720, -304, -1312,
     -2240, -3008, -3584, -3968, -4096, -3968, -3584, -3008, -2176, -1280, -272, 752,
     1728, 2560, 3264, 3776, 4032, 4096, 3840, 3328, 2688, 1824, 848, -172,
     -1184, -2944, -3968, -3968, -3072, -1408, 608, 2496, 3712, 4096, 3456, 1920,
     -36, -1984, -3456, -4096, -3712, -2432, -544, 1472, 3136, 4032, 3904, 2880,
     1120, -912, -2688, -3840, -4032, -3264, -1664, 344, 2240 >>

\* cos(a / Scale) * Scale rounded to the format, for the representable a in 0 .. 32 * Scale, by rank.
CosTab ==
  << 4096, 4096, 4096, 4096, 4096, 4096, 4096, 4096, 4096, 4096, 4096, 4096,
     4096, 4096, 4096, 4096, 4096, 4096, 4096, 4096, 4096, 4096, 4096, 4096,
     4096, 4096, 4096, 4096, 4096, 4096, 4096, 4096, 4096, 4096, 4096, 4096,
     4096, 4096, 4096, 4096, 4096, 4096, 4096, 4096, 4096, 4096, 4096, 4096,
     4096, 4096, 4096, 4096, 4096, 4096, 4096, 4096, 4096, 4096, 4096, 4096,
     4096, 4096, 4096, 4096, 4096, 4096, 4096, 4096, 4096, 4096, 4096, 4096,
     4096, 4096, 4096, 4096, 4096, 4096, 4096, 4096, 4096, 4096, 4096, 4096,
     4096, 4096, 4096, 4096, 4096, 4096, 4096, 4096, 4096, 4096, 4096, 4096,
     4096, 4096, 4096, 4096, 4096, 4096, 4096, 4096, 4096, 4096, 4096, 4096,
     4096, 4096, 4096, 4096, 4096, 4096, 4096, 4096, 4096, 4096, 4096, 4096,
     4096, 4096, 4096, 4096, 4096, 4096, 4096, 4096, 4096, 4096, 4096, 4096,
     4096, 4096, 4096, 4096, 4096, 4096, 4096, 4096, 4096, 4096, 4096, 4096,
     4096, 4096, 4096, 4096, 4096, 4096, 4096, 4096, 4096, 4096, 4096, 4096,
     4096, 4096, 4096, 4096, 4096, 4032, 4032, 4032, 4032, 4032, 4032, 4032,
     4032, 4032, 4032, 4032, 4032, 4032, 4032, 4032, 4032, 4032, 4032, 4032,
     4032, 4032, 4032, 4032, 3968, 3968, 3968, 3968, 3968, 3968, 3968, 3968,
     3968, 3968, 3968, 3968, 3904, 3904, 3904, 3904, 3904, 3904, 3904, 3840,
     3840, 3840, 3840, 3840, 3840, 3776, 3776, 3776, 3776, 3776, 3712, 3712,
     3712, 3712, 3712, 3648, 3648, 3648, 3648, 3584, 3584, 3584, 3520, 3520,
     3456, 3456, 3392, 3328, 3328, 3264, 3264, 3200, 3136, 3136, 3072, 3072,
     3008, 2944, 2880, 2880, 2816, 2752, 2752, 2688, 2624, 2560, 2496, 2496,
     2432, 2368, 2304, 2240, 2240, 2112, 1984, 1888, 1760, 1664, 1536, 1408,
     1280, 1184, 1056, 928, 800, 672, 544, 416, 288, 160, 34, -94,
     -220, -352, -480, -608, -736, -848, -976, -1120, -1216, -1344, -1472, -1600,
     -1696, -1920, -2176, -2368, -2560, -2752, -2944, -3136, -3264, -3456, -3584, -3712,
     -3776, -3904, -3968, -4032, -4032, -4096, -4096, -4096, -4096, -4032, -3968, -3904,
     -3840, -3712, -3648, -3520, -3392, -3200, -3072, -2880, -2688, -2240, -1824, -1344,
     -864, -360, 156, 656, 1152, 1632, 2112, 2496, 2880, 3264, 3520, 3776,
     3904, 4032, 4096, 4096, 4032, 3840, 3648, 3392, 3072, 2752, 2304, 1888,
     1408, 928, 424, -86, -592, -1568, -2496, -3200, -3712, -4032, -4096, -3904,
     -3456, -2752, -1952, -992, 18, 1024, 1984, 2816, 3456, 3904, 4096, 4032,
     3712, 3200, 2432, 1536, 560, -464, -1440, -2368, -3136, -3648, -4032, -4096,
     -3904, -2880, -1120, 896, 2688, 3840, 4032, 3264, 1664, -328, -2240, -3584,
     -4096, -3584, -2176, -252, 1728, 3328, 4032, 3840, 2624, 832, -1184, -2944,
     -3968, -3968, -3072, -1376, 624, 2496, 3776, 4096, 3392 >>

\* asin(a / Scale) * Scale rounded to the format, for the representable a in 0 .. Scale, by rank.
AsinTab ==
  << 0, 1, 2, 3, 4, 5, 6, 7, 8, 9, 10, 11,
     12, 13, 14, 15, 16, 17, 18, 19, 20, 21, 22, 23,
     24, 25, 26, 27, 28, 29, 30, 31, 32, 33, 34, 35,
     36, 37, 38, 39, 40, 41, 42, 43, 44, 45, 46, 47,
     48, 49, 50, 51, 52, 53, 54, 55, 56, 57, 58, 59,
     60, 61, 62, 63, 64, 66, 68, 70, 72, 74, 76, 78,
     80, 82, 84, 86, 88, 90, 92, 94, 96, 98, 100, 102,
     104, 106, 108, 110, 112, 114, 116, 118, 120, 122, 124, 126,
     128, 132, 136, 140, 144, 148, 152, 156, 160, 164, 168, 172,
     176, 180, 184, 188, 192, 196, 200, 204, 208, 212, 216, 220,
     224, 228, 232, 236, 240, 244, 248, 252, 256, 264, 272, 280,
     288, 296, 304, 312, 320, 328, 336, 344, 352, 360, 368, 376,
     384, 392, 400, 408, 416, 424, 432, 440, 448, 456, 464, 472,
     480, 488, 496, 504, 512, 528, 544, 560, 576, 592, 608, 624,
     640, 656, 672, 688, 704, 720, 736, 752, 768, 784, 800, 816,
     832, 848, 864, 880, 896, 912, 944, 960, 976, 992, 1008, 1024,
     1024, 1056, 1088, 1120, 1152, 1216, 1248, 1280, 1312, 1344, 1376, 1408,
     1440, 1472, 1504, 1536, 1568, 1600, 1632, 1664, 1728, 1760, 1792, 1824,
     1856, 1888, 1920, 1952, 1984, 2048, 2048, 2112, 2176, 2240, 2304, 2368,
     2432, 2496, 2624, 2688, 2752, 2816, 2944, 3008, 3136, 3200, 3264, 3392,
     3456, 3584, 3648, 3776, 3904, 3968, 4096, 4224, 4352, 4480, 4608, 4864,
     4992, 5120, 5376, 5760, 6400 >>

\* acos(a / Scale) * Scale rounded to the format, for the representable a in 0 .. Scale, by rank.
AcosTab ==
  << 6400, 6400, 6400, 6400, 6400, 6400, 6400, 6400, 6400, 6400, 6400, 6400,
     6400, 6400, 6400, 6400, 6400, 6400, 6400, 6400, 6400, 6400, 6400, 6400,
     6400, 6400, 6400, 6400, 6400, 6400, 6400, 6400, 6400, 6400, 6400, 6400,
     6400, 6400, 6400, 6400, 6400, 6400, 6400, 6400, 6400, 6400, 6400, 6400,
     6400, 6400, 6400, 6400, 6400, 6400, 6400, 6400, 6400, 6400, 6400, 6400,
     6400, 6400, 6400, 6400, 6400, 6400, 6400, 6400, 6400, 6400, 6400, 6400,
     6400, 6400, 6400, 6400, 6400, 6400, 6400, 6400, 6400, 6272, 6272, 6272,
     6272, 6272, 6272, 6272, 6272, 6272, 6272, 6272, 6272, 6272, 6272, 6272,
     6272, 6272, 6272, 6272, 6272, 6272, 6272, 6272, 6272, 6272, 6272, 6272,
     6272, 6272, 6272, 6272, 6272, 6272, 6272, 6272, 6272, 6272, 6272, 6272,
     6272, 6144, 6144, 6144, 6144, 6144, 6144, 6144, 6144, 6144, 6144, 6144,
     6144, 6144, 6144, 6144, 6144, 6144, 6144, 6144, 6144, 6016, 6016, 6016,
     6016, 6016, 6016, 6016, 6016, 6016, 6016, 6016, 6016, 6016, 6016, 6016,
     6016, 5888, 5888, 5888, 5888, 5888, 5888, 5888, 5888, 5888, 5760, 5760,
     5760, 5760, 5760, 5760, 5760, 5760, 5632, 5632, 5632, 5632, 5632, 5632,
     5632, 5632, 5504, 5504, 5504, 5504, 5504, 5504, 5504, 5504, 5376, 5376,
     5376, 5376, 5376, 5248, 5248, 5248, 5248, 5120, 5120, 5120, 5120, 4992,
     4992, 4992, 4992, 4864, 4864, 4864, 4736, 4736, 4736, 4736, 4608, 4608,
     4608, 4480, 4480, 4480, 4480, 4352, 4352, 4352, 4352, 4224, 4096, 4032,
     3968, 3904, 3840, 3776, 3648, 3584, 3520, 3392, 3328, 3264, 3136, 3072,
     2944, 2880, 2752, 2688, 2560, 2432, 2304, 2176, 2048, 1920, 1792, 1632,
     1440, 1248, 1024, 720, 0 >>

\* acos(-a / Scale) * Scale rounded to the format, for the representable a in 0 .. Scale, by rank.
AcosNegTab ==
  << 6400, 6400, 6400, 6400, 6400, 6400, 6400, 6400, 6400, 6400, 6400, 6400,
     6400, 6400, 6400, 6400, 6400, 6400, 6400, 6400, 6400, 6400, 6400, 6400,
     6400, 6400, 6400, 6400, 6400, 6400, 6400, 6528, 6528, 6528, 6528, 6528,
     6528, 6528, 6528, 6528, 6528, 6528, 6528, 6528, 6528, 6528, 6528, 6528,
     6528, 6528, 6528, 6528, 6528, 6528, 6528, 6528, 6528, 6528, 6528, 6528,
     6528, 6528, 6528, 6528, 6528, 6528, 6528, 6528, 6528, 6528, 6528, 6528,
     6528, 6528, 6528, 6528, 6528, 6528, 6528, 6528, 6528, 6528, 6528, 6528,
     6528, 6528, 6528, 6528, 6528, 6528, 6528, 6528, 6528, 6528, 6528, 6528,
     6528, 6528, 6528, 6528, 6528, 6528, 6528, 6528, 6656, 6656, 6656, 6656,
     6656, 6656, 6656, 6656, 6656, 6656, 6656, 6656, 6656, 6656, 6656, 6656,
     6656, 6656, 6656, 6656, 6656, 6656, 6656, 6656, 6656, 6656, 6656, 6656,
     6784, 6784, 6784, 6784, 6784, 6784, 6784, 6784, 6784, 6784, 6784, 6784,
     6784, 6784, 6784, 6784, 6912, 6912, 6912, 6912, 6912, 6912, 6912, 6912,
     6912, 6912, 6912, 6912, 6912, 6912, 7040, 7040, 7040, 7040, 7040, 7040,
     7040, 7040, 7168, 7168, 7168, 7168, 7168, 7168, 7168, 7168, 7296, 7296,
     7296, 7296, 7296, 7296, 7296, 7296, 7424, 7424, 7424, 7424, 7424, 7424,
     7424, 7552, 7552, 7552, 7552, 7680, 7680, 7680, 7680, 7808, 7808, 7808,
     7808, 7936, 7936, 7936, 8064, 8064, 8064, 8064, 8192, 8192, 8192, 8192,
     8192, 8448, 8448, 8448, 8448, 8448, 8448, 8448, 8704, 8704, 8704, 8704,
     8960, 8960, 8960, 9216, 9216, 9216, 9472, 9472, 9472, 9728, 9728, 9728,
     9984, 9984, 9984, 10240, 10240, 10496, 10496, 10752, 10752, 11008, 11008, 11264,
     11520, 11520, 11776, 12032, 12800 >>

\* atan(a / Scale) * Scale rounded to the format, for the representable a in 0 .. 64 * Scale, by rank.
AtanTab ==
  << 0, 1, 2, 3, 4, 5, 6, 7, 8, 9, 10, 11,
     12, 13, 14, 15, 16, 17, 18, 19, 20, 21, 22, 23,
     24, 25, 26, 27, 28, 29, 30, 31, 32, 33, 34, 35,
     36, 37, 38, 39, 40, 41, 42, 43, 44, 45, 46, 47,
     48, 49, 50, 51, 52, 53, 54, 55, 56, 57, 58, 59,
     60, 61, 62, 63, 64, 66, 68, 70, 72, 74, 76, 78,
     80, 82, 84, 86, 88, 90, 92, 94, 96, 98, 100, 102,
     104, 106, 108, 110, 112, 114, 116, 118, 120, 122, 124, 126,
     128, 132, 136, 140, 144, 148, 152, 156, 160, 164, 168, 172,
     176, 180, 184, 188, 192, 196, 200, 204, 208, 212, 216, 220,
     224, 228, 232, 236, 240, 244, 248, 252, 256, 264, 272, 280,
     288, 296, 304, 312, 320, 328, 336, 344, 352, 360, 368, 376,
     384, 392, 400, 408, 416, 424, 432, 440, 448, 456, 464, 472,
     480, 488, 496, 504, 512, 528, 544, 560, 576, 592, 608, 624,
     640, 656, 672, 688, 704, 720, 736, 736, 752, 768, 784, 800,
     816, 832, 848, 864, 880, 896, 912, 928, 944, 960, 976, 992,
     1008, 1024, 1056, 1088, 1120, 1152, 1184, 1216, 1248, 1280, 1312, 1312,
     1344, 1376, 1408, 1440, 1472, 1504, 1536, 1568, 1568, 1600, 1632, 1664,
     1696, 1728, 1728, 1760, 1792, 1824, 1856, 1888, 1888, 1952, 2016, 2048,
     2112, 2176, 2176, 2240, 2304, 2304, 2368, 2432, 2496, 2496, 2560, 2624,
     2624, 2688, 2688, 2752, 2816, 2816, 2880, 2880, 2944, 3008, 3008, 3072,
     3072, 3136, 3136, 3200, 3200, 3264, 3328, 3392, 3456, 3520, 3584, 3648,
     3648, 3712, 3776, 3840, 3840, 3904, 3968, 3968, 4032, 4096, 4096, 4096,
     4224, 4224, 4224, 4224, 4352, 4352, 4352, 4352, 4480, 4480, 4480, 4480,
     4480, 4608, 4608, 4736, 4736, 4736, 4864, 4864, 4864, 4864, 4992, 4992,
     4992, 4992, 5120, 5120, 5120, 5120, 5120, 5248, 5248, 5248, 5248, 5248,
     5248, 5376, 5376, 5376, 5376, 5376, 5376, 5376, 5376, 5504, 5504, 5504,
     5504, 5504, 5632, 5632, 5632, 5632, 5632, 5632, 5760, 5760, 5760, 5760,
     5760, 5760, 5760, 5760, 5760, 5760, 5888, 5888, 5888, 5888, 5888, 5888,
     5888, 5888, 5888, 5888, 5888, 5888, 6016, 6016, 6016, 6016, 6016, 6016,
     6016, 6016, 6016, 6016, 6016, 6016, 6016, 6144, 6144, 6144, 6144, 6144,
     6144, 6144, 6144, 6144, 6144, 6144, 6144, 6144, 6144, 6144, 6144, 6144,
     6144, 6144, 6144, 6144, 6144, 6272, 6272, 6272, 6272, 6272, 6272, 6272,
     6272, 6272, 6272, 6272, 6272, 6272, 6272, 6272, 6272, 6272, 6272, 6272,
     6272, 6272, 6272, 6272, 6272, 6272, 6272, 6272, 6272, 6272, 6272, 6272,
     6272, 6272, 6272, 6272, 6272, 6272, 6400, 6400, 6400, 6400, 6400, 6400,
     6400, 6400, 6400, 6400, 6400, 6400, 6400, 6400, 6400, 6400, 6400, 6400,
     6400, 6400, 6400, 6400, 6400 >>

\* sqrt(a / Scale) * Scale rounded to the format, for the representable a in 0 .. 16384 * Scale, by rank.
SqrtTab ==
  << 0, 64, 90, 110, 128, 144, 156, 168, 180, 192, 204, 212,
     220, 232, 240, 248, 256, 264, 272, 280, 288, 296, 304, 304,
     312, 320, 328, 336, 336, 344, 352, 360, 360, 368, 376, 376,
     384, 392, 392, 400, 408, 408, 416, 416, 424, 432, 432, 440,
     440, 448, 456, 456, 464, 464, 472, 472, 480, 480, 488, 488,
     496, 496, 504, 504, 512, 512, 528, 528, 544, 544, 560, 560,
     576, 576, 592, 592, 608, 608, 608, 624, 624, 640, 640, 640,
     656, 656, 672, 672, 672, 688, 688, 688, 704, 704, 720, 720,
     720, 736, 752, 752, 768, 784, 784, 800, 816, 816, 832, 832,
     848, 864, 864, 880, 880, 896, 912, 912, 928, 928, 944, 944,
     960, 960, 976, 976, 992, 992, 1008, 1008, 1024, 1024, 1056, 1056,
     1088, 1088, 1120, 1120, 1152, 1152, 1184, 1184, 1216, 1216, 1216, 1248,
     1248, 1280, 1280, 1280, 1312, 1312, 1344, 1344, 1344, 1376, 1376, 1376,
     1408, 1408, 1440, 1440, 1440, 1472, 1504, 1504, 1536, 1568, 1568, 1600,
     1632, 1632, 1664, 1664, 1696, 1728, 1728, 1760, 1760, 1792, 1824, 1824,
     1856, 1856, 1888, 1888, 1920, 1920, 1952, 1952, 1984, 1984, 2016, 2016,
     2048, 2048, 2112, 2112, 2176, 2176, 2240, 2240, 2304, 2304, 2368, 2368,
     2432, 2432, 2432, 2496, 2496, 2560, 2560, 2560, 2624, 2624, 2688, 2688,
     2688, 2752, 2752, 2752, 2816, 2816, 2880, 2880, 2880, 2944, 3008, 3008,
     3072, 3136, 3136, 3200, 3264, 3264, 3328, 3328, 3392, 3456, 3456, 3520,
     3520, 3584, 3648, 3648, 3712, 3712, 3776, 3776, 3840, 3840, 3904, 3904,
     3968, 3968, 4032, 4032, 4096, 4096, 4224, 4224, 4352, 4352, 4480, 4480,
     4608, 4608, 4736, 4736, 4864, 4864, 4864, 4992, 4992, 5120, 5120, 5120,
     5248, 5248, 5376, 5376, 5376, 5504, 5504, 5504, 5632, 5632, 5760, 5760,
     5760, 5888, 6016, 6016, 6144, 6272, 6272, 6400, 6528, 6528, 6656, 6656,
     6784, 6912, 6912, 7040, 7040, 7168, 7296, 7296, 7424, 7424, 7552, 7552,
     7680, 7680, 7808, 7808, 7936, 7936, 8064, 8064, 8192, 8192, 8448, 8448,
     8704, 8704, 8960, 8960, 9216, 9216, 9472, 9472, 9728, 9728, 9728, 9984,
     9984, 10240, 10240, 10240, 10496, 10496, 10752, 10752, 10752, 11008, 11008, 11008,
     11264, 11264, 11520, 11520, 11520, 11776, 12032, 12032, 12288, 12544, 12544, 12800,
     13056, 13056, 13312, 13312, 13568, 13824, 13824, 14080, 14080, 14336, 14592, 14592,
     14848, 14848, 15104, 15104, 15360, 15360, 15616, 15616, 15872, 15872, 16128, 16128,
     16384, 16384, 16896, 16896, 17408, 17408, 17920, 17920, 18432, 18432, 18944, 18944,
     19456, 19456, 19456, 19968, 19968, 20480, 20480, 20480, 20992, 20992, 21504, 21504,
     21504, 22016, 22016, 22016, 22528, 22528, 23040, 23040, 23040, 23552, 24064, 24064,
     24576, 25088, 25088, 25600, 26112, 26112, 26624, 26624, 27136, 27648, 27648, 28160,
     28160, 28672, 29184, 29184, 29696, 29696, 30208, 30208, 30720, 30720, 31232, 31232,
     31744, 31744, 32256, 32256, 32768, 32768, 33792, 33792, 34816, 34816, 35840, 35840,
     36864, 36864, 37888, 37888, 38912, 38912, 38912, 39936, 39936, 40960, 40960, 40960,
     41984, 41984, 43008, 43008, 43008, 44032, 44032, 44032, 45056, 45056, 46080, 46080,
     46080, 47104, 48128, 48128, 49152, 50176, 50176, 51200, 52224, 52224, 53248, 53248,
     54272, 55296, 55296, 56320, 56320, 57344, 58368, 58368, 59392, 59392, 60416, 60416,
     61440, 61440, 62464, 62464, 63488, 63488, 64512, 64512, 65536, 65536, 67584, 67584,
     69632, 69632, 71680, 71680, 73728, 73728, 75776, 75776, 77824, 77824, 77824, 79872,
     79872, 81920, 81920, 81920, 83968, 83968, 86016, 86016, 86016, 88064, 88064, 88064,
     90112, 90112, 92160, 92160, 92160, 94208, 96256, 96256, 98304, 100352, 100352, 102400,
     104448, 104448, 106496, 106496, 108544, 110592, 110592, 112640, 112640, 114688, 116736, 116736,
     118784, 118784, 120832, 120832, 122880, 122880, 124928, 124928, 126976, 126976, 129024, 129024,
     131072, 131072, 135168, 135168, 139264, 139264, 143360, 143360, 147456, 147456, 151552, 151552,
     155648, 155648, 155648, 159744, 159744, 163840, 163840, 163840, 167936, 167936, 172032, 172032,
     172032, 176128, 176128, 176128, 180224, 180224, 184320, 184320, 184320, 188416, 192512, 192512,
     196608, 200704, 200704, 204800, 208896, 208896, 212992, 212992, 217088, 221184, 221184, 225280,
     225280, 229376, 233472, 233472, 237568, 237568, 241664, 241664, 245760, 245760, 249856, 249856,
     253952, 253952, 258048, 258048, 262144, 262144, 270336, 270336, 278528, 278528, 286720, 286720,
     294912, 294912, 303104, 303104, 311296, 311296, 311296, 319488, 319488, 327680, 327680, 327680,
     335872, 335872, 344064, 344064, 344064, 352256, 352256, 352256, 360448, 360448, 368640, 368640,
     368640, 376832, 385024, 385024, 393216, 401408, 401408, 409600, 417792, 417792, 425984, 425984,
     434176, 442368, 442368, 450560, 450560, 458752, 466944, 466944, 475136, 475136, 483328, 483328,
     491520, 491520, 499712, 499712, 507904, 507904, 516096, 516096, 524288 >>

\* The constants of crate::float, each the value of the format nearest to
\* the real number: pi = 3.14159... rounds to 3.125.
PI == 12800

FRAC_PI_2 == 6400

TAU == 25600

\* The correctly rounded elementary functions, read from the tables.
Sin(a) == IF a < 0 THEN 0 - SinTab[Rank(0 - a) + 1] ELSE SinTab[Rank(a) + 1]

Cos(a) == CosTab[Rank(Abs(a)) + 1]

Asin(a) ==
  IF Abs(a) > Scale THEN NaN
  ELSE IF a < 0 THEN 0 - AsinTab[Rank(0 - a) + 1] ELSE AsinTab[Rank(a) + 1]

Acos(a) ==
  IF Abs(a) > Scale THEN NaN
  ELSE IF a < 0 THEN AcosNegTab[Rank(0 - a) + 1] ELSE AcosTab[Rank(a) + 1]

\* atan is FRAC_PI_2 from the last entry of its table on.
Atan(a) ==
  LET t == IF Rank(Abs(a)) + 1 > Len(AtanTab) THEN FRAC_PI_2
           ELSE AtanTab[Rank(Abs(a)) + 1]
  IN  IF a < 0 THEN 0 - t ELSE t

Sqrt(a) == SqrtTab[Rank(a) + 1]

----------------------------------------------------------------------------
(* geographic.rs                                                           *)

\* Mutant of LongitudeFromFloat: the remainder % in place of rem_euclid, so
\* a negative overflow stays negative.
LongitudeFromFloatRem(value) ==
  IF 0 - PI <= value /\ value < PI THEN value
  ELSE FSub(FRem(FAdd(value, PI), TAU), PI)

\* impl From<Float> for Longitude
LongitudeFromFloat(value) ==
  IF 0 - PI <= value /\ value < PI THEN value
  ELSE FSub(RemEuclid(FAdd(value, PI), TAU), PI)

\* Mutant of LongitudeFromCartesian: the second quadrant without its + PI.
LongitudeFromCartesianNoPi(point) ==
  LET x == point.x
      y == point.y
  IN  LongitudeFromFloat(
        CASE x > 0 -> Atan(FDiv(y, x))
          [] x < 0 /\ y >= 0 -> Atan(FDiv(y, x))
          [] x < 0 /\ y < 0 -> FSub(Atan(FDiv(y, x)), PI)
          [] x = 0 /\ y > 0 -> FRAC_PI_2
          [] x = 0 /\ y < 0 -> 0 - FRAC_PI_2
          [] OTHER -> 0)

\* impl From<cartesian::Coordinates> for Longitude
LongitudeFromCartesian(point) ==
  LET x == point.x
      y == point.y
  IN  LongitudeFromFloat(
        CASE x > 0 -> Atan(FDiv(y, x))
          [] x < 0 /\ y >= 0 -> FAdd(Atan(FDiv(y, x)), PI)
          [] x < 0 /\ y < 0 -> FSub(Atan(FDiv(y, x)), PI)
          [] x = 0 /\ y > 0 -> FRAC_PI_2
          [] x = 0 /\ y < 0 -> 0 - FRAC_PI_2
          [] OTHER -> 0)

\* Mutant of LatitudeFromFloat: the range of Longitude in the test.
LatitudeFromFloatWideRange(value) ==
  IF 0 - PI <= value /\ value < PI THEN value
  ELSE Asin(Sin(value))

\* Mutant of LatitudeFromFloat: the wrap of Longitude in place of the fold.
LatitudeFromFloatWrap(value) ==
  IF 0 - FRAC_PI_2 <= value /\ value <= FRAC_PI_2 THEN value
  ELSE FSub(RemEuclid(FAdd(value, FRAC_PI_2), PI), FRAC_PI_2)

\* impl From<Float> for Latitude
LatitudeFromFloat(value) ==
  IF 0 - FRAC_PI_2 <= value /\ value <= FRAC_PI_2 THEN value
  ELSE Asin(Sin(value))

\* Mutant of PolarAngle: the southern hemisphere without its PI +.
PolarAngleNoPi(point) ==
  LET x == point.x
      y == point.y
      z == point.z
  IN  CASE z > 0 -> Atan(FDiv(Sqrt(FAdd(FMul(x, x), FMul(y, y))), z))
        [] z < 0 -> Atan(FDiv(Sqrt(FAdd(FMul(x, x), FMul(y, y))), z))
        [] z = 0 /\ FMul(x, y) # 0 -> FRAC_PI_2
        [] OTHER -> FRAC_PI_2

\* The polar angle theta of impl From<cartesian::Coordinates> for Latitude.
PolarAngle(point) ==
  LET x == point.x
      y == point.y
      z == point.z
  IN  CASE z > 0 -> Atan(FDiv(Sqrt(FAdd(FMul(x, x), FMul(y, y))), z))
        [] z < 0 -> FAdd(PI, Atan(FDiv(Sqrt(FAdd(FMul(x, x), FMul(y, y))), z)))
        [] z = 0 /\ FMul(x, y) # 0 -> FRAC_PI_2
        [] OTHER -> FRAC_PI_2

\* impl From<cartesian::Coordinates> for Latitude
LatitudeFromCartesian(point) ==
  LatitudeFromFloat(FSub(FRAC_PI_2, PolarAngle(point)))

\* PositiveFloat::from of crate::float: the absolute value.
PositiveFloatFrom(value) == Abs(value)

\* Mutant of AltitudeFromFloat: the value kept with its sign.
AltitudeFromFloatSigned(value) == value

\* impl From<Float> for Altitude
AltitudeFromFloat(value) == PositiveFloatFrom(value)

\* impl From<cartesian::Coordinates> for Altitude
AltitudeFromCartesian(coords) ==
  PositiveFloatFrom(
    Sqrt(FAdd(FAdd(FMul(coords.x, coords.x), FMul(coords.y, coords.y)),
              FMul(coords.z, coords.z))))

\* Coordinates::default()
GeographicDefault == [longitude |-> 0, latitude |-> 0, altitude |-> 0]

\* cartesian::Coordinates::default()
CartesianDefault == [x |-> 0, y |-> 0, z |-> 0]

with_longitude(self, longitude) == [self EXCEPT !.longitude = longitude]

with_latitude(self, latitude) == [self EXCEPT !.latitude = latitude]

with_altitude(self, altitude) == [self EXCEPT !.altitude = altitude]

\* impl From<cartesian::Coordinates> for Coordinates
GeographicFromCartesian(coords) ==
  with_altitude(
    with_latitude(
      with_longitude(GeographicDefault, LongitudeFromCartesian(coords)),
      LatitudeFromCartesian(coords)),
    AltitudeFromCartesian(coords))

\* Mutant of distance: the difference of the longitudes without its cosine.
distanceNoCos(self, rhs) ==
  LET prod_latitude_sin == FMul(Sin(self.latitude), Sin(rhs.latitude))
      prod_latitude_cos == FMul(Cos(self.latitude), Cos(rhs.latitude))
      longitude_diff == Abs(FSub(self.longitude, rhs.longitude))
  IN  Acos(FAdd(prod_latitude_sin, FMul(prod_latitude_cos, longitude_diff)))

\* Coordinates::distance
distance(self, rhs) ==
  LET prod_latitude_sin == FMul(Sin(self.latitude), Sin(rhs.latitude))
      prod_latitude_cos == FMul(Cos(self.latitude), Cos(rhs.latitude))
      longitude_diff == Abs(FSub(self.longitude, rhs.longitude))
  IN  Acos(FAdd(prod_latitude_sin, FMul(prod_latitude_cos, Cos(longitude_diff))))

----------------------------------------------------------------------------
(* projection/equirectangular.rs                                           *)

\* Equirectangular::forward
forward(radius, coordinates) ==
  [CartesianDefault EXCEPT !.x = FMul(radius, coordinates.longitude),
                           !.y = FMul(radius, coordinates.latitude)]

\* Mutant of reverse: the planar coordinates taken as angles, undivided.
reverseUndivided(radius, coordinates) ==
  [GeographicDefault EXCEPT
     !.latitude = LatitudeFromFloat(coordinates.y),
     !.longitude = LongitudeFromFloat(coordinates.x)]

\* Equirectangular::reverse
reverse(radius, coordinates) ==
  [GeographicDefault EXCEPT
     !.latitude = LatitudeFromFloat(FDiv(coordinates.y, radius)),
     !.longitude = LongitudeFromFloat(FDiv(coordinates.x, radius))]

----------------------------------------------------------------------------
(* The inputs.                                                             *)

\* The largest magnitude of a Float handed to a scalar constructor.
MaxAngle == 8

\* Cartesian coordinates off the axes are 0 or +-2^i / 4 and +-3 * 2^i / 4,
\* i in 0 .. MaxCoordExp.
MaxCoordExp == 5

\* The largest sphere radius and the largest distance of an axis point.
MaxRadius == 8

\* The values of the format of magnitude at most max.
Floats(max) ==
  LET mags == {m * 2^k : m \in 0 .. 2^MantBits - 1, k \in 0 .. BitLen(max)}
  IN  {a \in mags : a <= max} \cup {0 - a : a \in {b \in mags : b <= max}}

AngleInputs == Floats(MaxAngle * Scale)

\* The values a Longitude is meant to hold, [-PI, PI).
LongitudeValues == {v \in Floats(PI) : v < PI}

\* The values a Latitude is meant to hold, [-FRAC_PI_2, FRAC_PI_2].
LatitudeValues == Floats(FRAC_PI_2)

CoordInputs ==
  LET mags == {(Scale \div 4) * 2^i : i \in 0 .. MaxCoordExp}
                \cup {3 * (Scale \div 4) * 2^i : i \in 0 .. MaxCoordExp}
  IN  {0} \cup mags \cup {0 - c : c \in mags}

\* The distances r of the points on the axes: Scale / 4 <= r <= MaxRadius.
AxisDistances == {r \in Floats(MaxRadius * Scale) : r >= Scale \div 4}

AxisPoints ==
  UNION {{[CartesianDefault EXCEPT !.x = r], [CartesianDefault EXCEPT !.x = 0 - r],
          [CartesianDefault EXCEPT !.y = r], [CartesianDefault EXCEPT !.y = 0 - r],
          [CartesianDefault EXCEPT !.z = r], [CartesianDefault EXCEPT !.z = 0 - r]}
         : r \in AxisDistances}

CartesianInputs ==
  [x : CoordInputs, y : CoordInputs, z : CoordInputs] \cup AxisPoints

\* The radii of the projection: 1, 1.5, 2, ..., MaxRadius.
Radii == {(Scale \div 2) * j : j \in 2 .. 2 * MaxRadius}

\* The points projected: every longitude on the equator, every latitude on
\* the prime meridian, at altitude 0 and 1.
ProjectedPoints ==
  {[longitude |-> l, latitude |-> 0, altitude |-> h] :
     l \in LongitudeValues, h \in {0, Scale}}
  \cup {[longitude |-> 0, latitude |-> p, altitude |-> h] :
          p \in LatitudeValues, h \in {0, Scale}}

\* The first point of a distance: every latitude, on the prime meridian and
\* on its antimeridian.
DistanceFrom ==
  [longitude : {0, LongitudeFromFloat(PI)}, latitude : LatitudeValues,
   altitude : {0, Scale}]

\* The second point: the same latitude or the equator or a pole, on three
\* meridians.
DistanceTo(a) ==
  [longitude : {0, LongitudeFromFloat(PI), FRAC_PI_2},
   latitude : {a.latitude, 0, FRAC_PI_2, 0 - FRAC_PI_2},
   altitude : {0, Scale}]

----------------------------------------------------------------------------
(* The operations of the library, one action each. The library keeps no     *)
(* state between calls, so a behaviour is one call on freshly chosen       *)
(* inputs.                                                                 *)

Init ==
  /\ call = "init"
  /\ args = <<>>
  /\ ret = <<>>

\* Longitude::from(value)
LongitudeFrom ==
  /\ call = "init"
  /\ \E value \in AngleInputs :
       /\ call' = "Longitude::from"
       /\ args' = [value |-> value]
       /\ ret' = [longitude |-> LongitudeFromFloat(value)]

\* The doc example of Longitude, for any k: Longitude::from(PI + k) and
\* Longitude::from(-PI + k).
LongitudeOverflow ==
  /\ call = "init"
  /\ \E k \in AngleInputs :
       /\ call' = "Longitude::overflow"
       /\ args' = [k |-> k]
       /\ ret' = [above |-> LongitudeFromFloat(FAdd(PI, k)),
                    below |-> LongitudeFromFloat(FAdd(0 - PI, k))]

\* Latitude::from(value)
LatitudeFrom ==
  /\ call = "init"
  /\ \E value \in AngleInputs :
       /\ call' = "Latitude::from"
       /\ args' = [value |-> value]
       /\ ret' = [latitude |-> LatitudeFromFloat(value)]

\* Altitude::from(value)
AltitudeFrom ==
  /\ call = "init"
  /\ \E value \in AngleInputs :
       /\ call' = "Altitude::from"
       /\ args' = [value |-> value]
       /\ ret' = [altitude |-> AltitudeFromFloat(value)]

\* Coordinates::from(cartesian)
GeographicFrom ==
  /\ call = "init"
  /\ \E coords \in CartesianInputs :
       /\ call' = "Coordinates::from"
       /\ args' = [coords |-> coords]
       /\ ret' = GeographicFromCartesian(coords)

\* self.distance(&rhs)
Distance ==
  /\ call = "init"
  /\ \E a \in DistanceFrom :
       \E b \in DistanceTo(a) :
         /\ call' = "distance"
         /\ args' = [self |-> a, rhs |-> b]
         /\ ret' = [distance |-> distance(a, b)]

\* projection.reverse(&projection.forward(&g)) of Equirectangular { radius }
RoundTrip ==
  /\ call = "init"
  /\ \E radius \in Radii :
       \E g \in ProjectedPoints :
         /\ call' = "round_trip"
         /\ args' = [radius |-> radius, coordinates |-> g]
         /\ ret' = [forward |-> forward(radius, g),
                     reverse |-> reverse(radius, forward(radius, g))]

Next ==
  \/ LongitudeFrom
  \/ LongitudeOverflow
  \/ LatitudeFrom
  \/ AltitudeFrom
  \/ GeographicFrom
  \/ Distance
  \/ RoundTrip

Spec == Init /\ [][Next]_vars

----------------------------------------------------------------------------
(* The claims.                                                             *)

Min(a, b) == IF a <= b THEN a ELSE b

\* The unit in the last place of a.
Ulp(a) == Quantum(Abs(a))

\* The distance of two angles on the circle of circumference TAU.
CircleDistance(a, b) ==
  LET d == Abs(a - b) % TAU IN Min(d, TAU - d)

\* The error asin and acos can make next to the ends of [-1, 1], where a
\* rounding error e of the argument moves the result by about sqrt(2 * e):
\* the square root of the relative rounding unit 2^(2 - MantBits) (for f64,
\* 2^(-51/2), about 2.1e-8).
Tolerance == 2^(FracBits - (MantBits - 2) \div 2)

InLongitudeRange(v) == 0 - PI <= v /\ v < PI

InLatitudeRange(v) == 0 - FRAC_PI_2 <= v /\ v <= FRAC_PI_2

\* C1: for every float v, Longitude::from(v) lies in [-PI, PI), and a v
\* already in that range is kept unchanged.
C1_LongitudeInRange ==
  call = "Longitude::from" =>
    /\ InLongitudeRange(ret.longitude)
    /\ InLongitudeRange(args.value) => ret.longitude = args.value

\* C2: for every float v, Latitude::from(v) lies in [-PI/2, PI/2]; a v in
\* that range, bounds included, is kept unchanged and any other v is
\* replaced by asin(sin(v)).
C2_LatitudeInRange ==
  call = "Latitude::from" =>
    /\ InLatitudeRange(ret.latitude)
    /\ InLatitudeRange(args.value) => ret.latitude = args.value
    /\ ~InLatitudeRange(args.value) => ret.latitude = Asin(Sin(args.value))

\* An input beyond the north pole was folded back into the range.
C2_Witness ==
  /\ call = "Latitude::from"
  /\ args.value > FRAC_PI_2
  /\ ret.latitude # args.value
  /\ InLatitudeRange(ret.latitude)

C4_WrapExact ==
  call = "Longitude::overflow" => ret.above = ret.below

\* C4 amended: Longitude::from(PI + k) and Longitude::from(-PI + k) agree on
\* the circle up to two units in the last place of |k| + PI, and are equal
\* where no sum rounds, as for k = 1 (both -PI + 1) and k = -1 (both PI - 1).
C4_WrapUpToRounding ==
  call = "Longitude::overflow" =>
    /\ CircleDistance(ret.above, ret.below) <= 2 * Ulp(Abs(args.k) + PI)
    /\ args.k = Scale =>
         ret.above = FAdd(0 - PI, Scale) /\ ret.below = FAdd(0 - PI, Scale)
    /\ args.k = 0 - Scale =>
         ret.above = FSub(PI, Scale) /\ ret.below = FSub(PI, Scale)

\* PI + k overflowed the range and was wrapped to the value of -PI + k.
C4_Witness ==
  /\ call = "Longitude::overflow"
  /\ args.k > 0
  /\ ~InLongitudeRange(FAdd(PI, args.k))
  /\ InLongitudeRange(FAdd(0 - PI, args.k))
  /\ ret.above = FAdd(0 - PI, args.k)
  /\ ret.below = ret.above

\* n * PI / d as the caller computes it.
PiTimes(n, d) == FDiv(FMul(n * Scale, PI), d * Scale)

\* C5: a latitude beyond a boundary is reflected off it: for every in-range
\* p, Latitude::from(PI - p) and Latitude::from(-PI - p) are p up to the
\* tolerance, inputs 2 PI apart give the same latitude, and -5 PI / 4 gives
\* the latitude of PI / 4, 7 PI / 4 gives -PI / 4 and -7 PI / 4 gives PI / 4.
C5_LatitudeReflects ==
  call = "Latitude::from" =>
    /\ \A p \in LatitudeValues :
         (\/ args.value = FSub(PI, p)
          \/ args.value = FSub(0 - PI, p)
          \/ args.value = FAdd(p, TAU)
          \/ args.value = FSub(p, TAU)) => Abs(ret.latitude - p) <= Tolerance
    /\ args.value = PiTimes(0 - 5, 4) =>
         Abs(ret.latitude - LatitudeFromFloat(PiTimes(1, 4))) <= Tolerance
    /\ args.value = PiTimes(7, 4) =>
         Abs(ret.latitude - PiTimes(0 - 1, 4)) <= Tolerance
    /\ args.value = PiTimes(0 - 7, 4) =>
         Abs(ret.latitude - PiTimes(1, 4)) <= Tolerance

\* The input PI - 1 lies beyond the north pole and comes back near 1.
C5_Witness ==
  /\ call = "Latitude::from"
  /\ args.value = FSub(PI, Scale)
  /\ ~InLatitudeRange(args.value)
  /\ ret.latitude # args.value
  /\ Abs(ret.latitude - Scale) <= Tolerance

\* The point at distance r on the positive or negative x, y or z axis.
OnAxis(coords, axis, r) == coords = [CartesianDefault EXCEPT ![axis] = r]

AntipodalLongitudes ==
  /\ call = "distance"
  /\ args.self.longitude = 0
  /\ args.rhs.longitude = LongitudeFromFloat(PI)
  /\ args.self.latitude = args.rhs.latitude

\* C7 as stated: the distance between longitude 0 and longitude PI at equal
\* latitude is PI, for every latitude.
C7_AntipodalLongitudeIsPi ==
  AntipodalLongitudes => ret.distance = PI

\* C7 amended: the distance between longitude 0 and longitude PI at the
\* shared latitude p is PI on the equator (p = 0), and PI - 2 |p| up to the
\* tolerance in general (0 at the poles).
C7_AntipodalLongitudeAtLatitude ==
  AntipodalLongitudes =>
    /\ args.self.latitude = 0 => ret.distance = PI
    /\ ret.distance # NaN
    /\ Abs(ret.distance - (PI - 2 * Abs(args.self.latitude))) <= Tolerance

\* Antipodal meridians on the equator, at different altitudes.
C7_Witness ==
  /\ AntipodalLongitudes
  /\ args.self.latitude = 0
  /\ args.self.altitude # args.rhs.altitude
  /\ ret.distance = PI

\* C8: distance(a, a) is 0 for every point a, here up to the tolerance, and
\* no distance depends on the altitude of either point.
C8_DistanceToSelfIsZero ==
  call = "distance" =>
    /\ args.self = args.rhs =>
         ret.distance # NaN /\ Abs(ret.distance) <= Tolerance
    /\ ret.distance = distance(with_altitude(args.self, 0),
                               with_altitude(args.rhs, 0))

\* C9: Altitude::from(v) is >= 0 and equals Altitude::from(-v);
\* Altitude::from(cartesian) is sqrt(x^2 + y^2 + z^2), hence >= 0.
C9_AltitudeNonNegative ==
  /\ call = "Altitude::from" =>
       ret.altitude >= 0 /\ ret.altitude = AltitudeFromFloat(0 - args.value)
  /\ call = "Coordinates::from" =>
       /\ ret.altitude >= 0
       /\ ret.altitude =
            Sqrt(FAdd(FAdd(FMul(args.coords.x, args.coords.x),
                           FMul(args.coords.y, args.coords.y)),
                      FMul(args.coords.z, args.coords.z)))

\* A negative input lost its sign.
C9_Witness ==
  /\ call = "Altitude::from"
  /\ args.value < 0
  /\ ret.altitude = 0 - args.value

\* The parts of C10 that rounding does not touch: z = 0 gives latitude 0
\* whatever x and y are, and x = y = 0 gives longitude 0.
C10_Fallbacks ==
  /\ args.coords.z = 0 => ret.latitude = 0
  /\ (args.coords.x = 0 /\ args.coords.y = 0) => ret.longitude = 0

\* C10 as stated: the latitude is in (0, PI/2] for z > 0 and in [-PI/2, 0)
\* for z < 0.
C10_LatitudeSignStrict ==
  call = "Coordinates::from" =>
    /\ C10_Fallbacks
    /\ args.coords.z > 0 => 0 < ret.latitude /\ ret.latitude <= FRAC_PI_2
    /\ args.coords.z < 0 => 0 - FRAC_PI_2 <= ret.latitude /\ ret.latitude < 0

\* C10 amended: the latitude is in [0, PI/2] for z > 0 and in [-PI/2, 0]
\* for z < 0: it is 0 as well where sqrt(x^2 + y^2) / z is so large that its
\* atan rounds to PI/2.
C10_LatitudeSign ==
  call = "Coordinates::from" =>
    /\ C10_Fallbacks
    /\ args.coords.z > 0 => 0 <= ret.latitude /\ ret.latitude <= FRAC_PI_2
    /\ args.coords.z < 0 => 0 - FRAC_PI_2 <= ret.latitude /\ ret.latitude <= 0

\* A point just above the z = 0 plane, far from the axis, at latitude 0.
C10_Witness ==
  /\ call = "Coordinates::from"
  /\ args.coords.z > 0
  /\ args.coords.x # 0
  /\ args.coords.y # 0
  /\ ret.latitude = 0
====
